---- MODULE Spec2Model ----
(***************************************************************************)
(* Model of src/src/App.tsx: the model lifecycle (loadModel, handleRetry)  *)
(* and the image pipeline (handleImageUpload, handleDrop, analyzeImage,    *)
(* the clear button) of the App component, as a state machine over the     *)
(* component's React state and refs plus the asynchronous work in flight.  *)
(***************************************************************************)
EXTENDS Integers, Sequences, FiniteSets, TLC

\* ------------------------------------------------------------------ bounds
\* number of image files whose pipeline is tracked (ids 1..MaxSubmits)
MaxSubmits == 2

\* --------------------------------------------------------------- constants
\* the literal 3 of `retryCount.current < 3` and of the "/3" in the message
MaxRetries == 3

VARIABLES
  image,          \* useState image: 0 = null, i = data URL of file i
  predictions,    \* useState predictions: 0 = [], i = classify result of file i
  isAnalyzing,    \* useState isAnalyzing
  isModelLoading, \* useState isModelLoading
  error,          \* useState error (a record, see Err)
  modelRef,       \* modelRef.current: "null" or "model"
  retryCount,     \* retryCount.current
  mounted,        \* has the mount effect run initializeModel
  loads,          \* loadModel calls parked on one of their three awaits
  timers,         \* pending setTimeout(loadModel, 2000) callbacks
  pipe,           \* per submitted image file: where its pipeline stands
  nextId,         \* id the next submitted image file gets
  lastEvent,      \* history: the handler or callback that ran last
  fails,          \* history: load failures since the episode began
  timerFired,     \* history: retry timers fired since the episode began
  cleared,        \* history: the clear button ran and no file was submitted since
  overlap,        \* history: an image was submitted while another was in flight
  errorBy,        \* history: the pipeline whose callback wrote error last (0: none)
  retryFrom,      \* history: was the terminal message shown when handleRetry last ran
  phase           \* history: lifecycle state the load callbacks have produced

vars == <<image, predictions, isAnalyzing, isModelLoading, error, modelRef,
          retryCount, mounted, loads, timers, pipe, nextId, lastEvent,
          fails, timerFired, cleared, overlap, errorBy, retryFrom,
          phase>>

\* what the model lifecycle owns, and what the image pipeline owns
lifecycleVars == <<modelRef, retryCount, isModelLoading, mounted, loads,
                   timers, fails, timerFired, retryFrom, phase>>
pipelineVars == <<image, predictions, isAnalyzing, pipe, nextId, cleared,
                  overlap>>

Ids == 1..MaxSubmits

\* ------------------------------------------------------------ error values
Err(kind, n) == [kind |-> kind, n |-> n]
NoError == Err("null", 0)
\* `Loading failed. Retrying... (Attempt ${n}/3)`
RetryingMsg(n) == Err("retrying", n)
\* 'Unable to load AI model. Please check your internet connection ...'
TerminalMsg == Err("terminal", 0)
\* 'Model not loaded yet. Please try again in a moment.'
ModelNotReadyMsg == Err("notReady", 0)
\* 'Error analyzing image. Please try again.'
AnalysisErrorMsg == Err("analysis", 0)
\* 'Please upload an image file (JPG, PNG)'
UnsupportedTypeMsg == Err("unsupported", 0)
\* 'Error loading image. Please try another file.'
DecodeErrorMsg == Err("decode", 0)
\* 'Error reading file. Please try again.'
ReadErrorMsg == Err("read", 0)

\* ------------------------------------------------------------------- files
\* a declared MIME type is a sequence of tokens; "image/" is <<"image","/">>
ImagePrefix == <<"image", "/">>
FileTypes == { <<"image", "/", "png">>, <<"image", "/", "jpeg">>,
               <<"text", "/", "plain">>, <<"image">>, <<>> }
NoFile == [present |-> FALSE, type |-> <<>>]
Files == {NoFile} \cup {[present |-> TRUE, type |-> t] : t \in FileTypes}

\* String.prototype.startsWith
StartsWith(s, p) == Len(s) >= Len(p) /\ SubSeq(s, 1, Len(p)) = p

\* file.type.startsWith('image/')
IsImageType(t) == StartsWith(t, ImagePrefix)

\* ------------------------------------------------------------------- views
\* mutant: the Retry button rendered whenever an error is shown
RetryOfferedWhileLoading == error # NoError

\* `if (isModelLoading || error)` renders the loading/error screen;
\* inside it the Retry button is rendered only when !isModelLoading
RetryOffered == ~isModelLoading /\ error # NoError

\* the main screen (drop zone, file input) is rendered otherwise
MainViewShown == ~isModelLoading /\ error = NoError

\* the clear button is rendered in the main screen when an image is held
ClearOffered == MainViewShown /\ image # 0

\* ------------------------------------------------------------- loadModel
\* mutant: increment first, compare after (one automatic retry fewer)
CanAutoRetryOffByOne(rc) == rc + 1 < MaxRetries

\* mutant: `<=` for `<` (one automatic retry more)
CanAutoRetryOneMore(rc) == rc <= MaxRetries

\* mutant: the bound on automatic retries dropped
CanAutoRetryAlways(rc) == TRUE

\* `if (retryCount.current < 3)` in the catch block
CanAutoRetry(rc) == rc < MaxRetries

\* loadModel up to its first await: setIsModelLoading(true); setError(null).
\* modelRef.current is not touched.  The call then awaits tf.ready(),
\* tf.setBackend('webgl') and mobilenet.load(...) in turn; no state is
\* written between the three awaits and a rejection of any of them runs the
\* same catch block, so the call is in flight until LoadSuccess or LoadFail.
LoadModelStart ==
  /\ isModelLoading' = TRUE
  /\ error' = NoError
  /\ loads' = loads + 1
  /\ phase' = "Loading"

Init ==
  /\ image = 0
  /\ predictions = 0
  /\ isAnalyzing = FALSE
  /\ isModelLoading = TRUE
  /\ error = NoError
  /\ modelRef = "null"
  /\ retryCount = 0
  /\ mounted = FALSE
  /\ loads = 0
  /\ timers = 0
  /\ pipe = [i \in Ids |-> "unused"]
  /\ nextId = 1
  /\ lastEvent = "init"
  /\ fails = 0
  /\ timerFired = 0
  /\ cleared = FALSE
  /\ overlap = FALSE
  /\ errorBy = 0
  /\ retryFrom = "none"
  /\ phase = "Uninitialized"

\* useEffect(() => { ... initializeModel(); ... }, [])
InitializeModel ==
  /\ ~mounted
  /\ mounted' = TRUE
  /\ LoadModelStart
  /\ lastEvent' = "initializeModel"
  /\ errorBy' = 0
  /\ UNCHANGED <<pipelineVars, modelRef, retryCount, timers, fails,
                 timerFired, retryFrom>>

\* mutant: LoadSuccess without `retryCount.current = 0`
LoadSuccessNoReset ==
  /\ loads > 0
  /\ loads' = loads - 1
  /\ modelRef' = "model"
  /\ isModelLoading' = FALSE
  /\ lastEvent' = "loadSuccess"
  /\ phase' = "Ready"
  /\ UNCHANGED <<pipelineVars, error, errorBy, mounted, timers, fails,
                 timerFired, retryFrom, retryCount>>

\* the three awaits resolve: the rest of the try block
LoadSuccess ==
  /\ loads > 0
  /\ loads' = loads - 1
  /\ modelRef' = "model"
  /\ isModelLoading' = FALSE
  /\ retryCount' = 0
  /\ lastEvent' = "loadSuccess"
  /\ phase' = "Ready"
  /\ UNCHANGED <<pipelineVars, error, errorBy, mounted, timers, fails,
                 timerFired, retryFrom>>

\* mutant: the terminal branch without setIsModelLoading(false)
LoadFailKeepsLoading ==
  /\ loads > 0
  /\ loads' = loads - 1
  /\ fails' = fails + 1
  /\ IF CanAutoRetry(retryCount)
       THEN /\ retryCount' = retryCount + 1
            /\ error' = RetryingMsg(retryCount + 1)
            /\ timers' = timers + 1
            /\ lastEvent' = "loadFailRetry"
            /\ UNCHANGED <<isModelLoading, phase>>
       ELSE /\ error' = TerminalMsg
            /\ lastEvent' = "loadFailTerminal"
            /\ phase' = "Failed"
            /\ UNCHANGED <<retryCount, timers, isModelLoading>>
  /\ errorBy' = 0
  /\ UNCHANGED <<pipelineVars, modelRef, mounted, timerFired, retryFrom>>

\* one of the three awaits rejects: the catch block
LoadFail ==
  /\ loads > 0
  /\ loads' = loads - 1
  /\ fails' = fails + 1
  /\ IF CanAutoRetry(retryCount)
       THEN /\ retryCount' = retryCount + 1
            /\ error' = RetryingMsg(retryCount + 1)
            /\ timers' = timers + 1
            /\ lastEvent' = "loadFailRetry"
            /\ UNCHANGED <<isModelLoading, phase>>
       ELSE /\ error' = TerminalMsg
            /\ isModelLoading' = FALSE
            /\ lastEvent' = "loadFailTerminal"
            /\ phase' = "Failed"
            /\ UNCHANGED <<retryCount, timers>>
  /\ errorBy' = 0
  /\ UNCHANGED <<pipelineVars, modelRef, mounted, timerFired, retryFrom>>

\* the setTimeout(loadModel, 2000) callback runs
TimerFire ==
  /\ timers > 0
  /\ timers' = timers - 1
  /\ LoadModelStart
  /\ timerFired' = timerFired + 1
  /\ lastEvent' = "timerFire"
  /\ errorBy' = 0
  /\ UNCHANGED <<pipelineVars, modelRef, retryCount, mounted, fails,
                 retryFrom>>

\* mutant: handleRetry without `retryCount.current = 0`
HandleRetryNoReset ==
  /\ LoadModelStart
  /\ fails' = 0
  /\ timerFired' = 0
  /\ retryFrom' = (IF error = TerminalMsg THEN "terminal" ELSE "other")
  /\ lastEvent' = "handleRetry"
  /\ errorBy' = 0
  /\ UNCHANGED <<pipelineVars, modelRef, mounted, timers, retryCount>>

\* handleRetry: retryCount.current = 0; loadModel()
HandleRetry ==
  /\ retryCount' = 0
  /\ LoadModelStart
  /\ fails' = 0
  /\ timerFired' = 0
  /\ retryFrom' = (IF error = TerminalMsg THEN "terminal" ELSE "other")
  /\ lastEvent' = "handleRetry"
  /\ errorBy' = 0
  /\ UNCHANGED <<pipelineVars, modelRef, mounted, timers>>

\* ---------------------------------------------------------- image pipeline
InFlight == {"reading", "decoding", "inferring"}
Resolved == {"readError", "decodeError", "notReady", "inferError", "ok"}
PipeStates == {"unused"} \cup InFlight \cup Resolved

\* is some submitted image's read, decode or inference unresolved
SomeInFlight == \E i \in Ids : pipe[i] \in InFlight

\* new FileReader(); reader.onload = ...; reader.readAsDataURL(file)
StartRead ==
  /\ nextId <= MaxSubmits
  /\ pipe' = [pipe EXCEPT ![nextId] = "reading"]
  /\ nextId' = nextId + 1
  /\ overlap' = (overlap \/ SomeInFlight)
  /\ cleared' = FALSE
  /\ UNCHANGED <<image, predictions, isAnalyzing, error, errorBy>>

\* mutant: the rejection also drops the image and the predictions
RejectFileClearing ==
  /\ error' = UnsupportedTypeMsg
  /\ errorBy' = 0
  /\ cleared' = FALSE
  /\ image' = 0
  /\ predictions' = 0
  /\ UNCHANGED <<isAnalyzing, pipe, nextId, overlap>>

\* setError('Please upload an image file (JPG, PNG)')
RejectFile ==
  /\ error' = UnsupportedTypeMsg
  /\ errorBy' = 0
  /\ cleared' = FALSE
  /\ UNCHANGED <<image, predictions, isAnalyzing, pipe, nextId, overlap>>

\* the branch handleImageUpload takes: `if (!file) return;`, then
\* `if (!file.type.startsWith('image/'))`, then the FileReader
PickerOutcome(file) ==
  IF ~file.present THEN "NoFile"
  ELSE IF ~IsImageType(file.type) THEN "Rejected"
  ELSE "Accepted"

\* mutant: handleDrop without the type test
DropOutcomeNoTypeCheck(file) ==
  IF file.present THEN "Accepted" ELSE "Rejected"

\* the branch handleDrop takes: `if (file && file.type.startsWith('image/'))`
DropOutcome(file) ==
  IF file.present /\ IsImageType(file.type) THEN "Accepted" ELSE "Rejected"

\* what the taken branch does to the component (the two handlers have the
\* same FileReader block and the same setError call)
SubmitEffect(outcome) ==
  /\ CASE outcome = "NoFile" -> UNCHANGED <<pipelineVars, error, errorBy>>
       [] outcome = "Rejected" -> RejectFile
       [] outcome = "Accepted" -> StartRead
  /\ UNCHANGED lifecycleVars

\* the name lastEvent gets for a handler ("upload" or "drop") and its branch
EventName(handler, outcome) ==
  CASE handler = "upload" /\ outcome = "NoFile" -> "uploadNoFile"
    [] handler = "upload" /\ outcome = "Rejected" -> "uploadRejected"
    [] handler = "upload" /\ outcome = "Accepted" -> "uploadAccepted"
    [] handler = "drop" /\ outcome = "Rejected" -> "dropRejected"
    [] handler = "drop" /\ outcome = "Accepted" -> "dropAccepted"

\* handleImageUpload: the file input's onChange
HandleImageUpload(file) ==
  /\ SubmitEffect(PickerOutcome(file))
  /\ lastEvent' = EventName("upload", PickerOutcome(file))

\* handleDrop: the drop zone's onDrop
HandleDrop(file) ==
  /\ SubmitEffect(DropOutcome(file))
  /\ lastEvent' = EventName("drop", DropOutcome(file))

\* reader.onload: setImage(dataUrl); setPredictions([]); img.src = dataUrl
ReadResolve(i) ==
  /\ pipe[i] = "reading"
  /\ image' = i
  /\ predictions' = 0
  /\ pipe' = [pipe EXCEPT ![i] = "decoding"]
  /\ lastEvent' = "readResolve"
  /\ UNCHANGED <<lifecycleVars, isAnalyzing, error, errorBy, nextId, cleared,
                 overlap>>

\* mutant: reader.onerror that goes on to decode
ReadFailStartsDecode(i) ==
  /\ pipe[i] = "reading"
  /\ error' = ReadErrorMsg
  /\ errorBy' = i
  /\ pipe' = [pipe EXCEPT ![i] = "decoding"]
  /\ lastEvent' = "readFail"
  /\ UNCHANGED <<lifecycleVars, image, predictions, isAnalyzing, nextId,
                 cleared, overlap>>

\* reader.onerror
ReadFail(i) ==
  /\ pipe[i] = "reading"
  /\ error' = ReadErrorMsg
  /\ errorBy' = i
  /\ pipe' = [pipe EXCEPT ![i] = "readError"]
  /\ lastEvent' = "readFail"
  /\ UNCHANGED <<lifecycleVars, image, predictions, isAnalyzing, nextId,
                 cleared, overlap>>

\* mutant: analyzeImage without its model check
ModelLoadedAlways(m) == TRUE

\* `if (!modelRef.current)` at the top of analyzeImage, negated
ModelLoaded(m) == m # "null"

\* img.onload: analyzeImage(img) up to `await modelRef.current.classify(...)`.
\* The await on the image's load promise is resolved at once (the element is
\* complete inside its own onload), so it runs before any other task.
DecodeResolve(i) ==
  /\ pipe[i] = "decoding"
  /\ IF ~ModelLoaded(modelRef)
       THEN /\ error' = ModelNotReadyMsg
            /\ pipe' = [pipe EXCEPT ![i] = "notReady"]
            /\ lastEvent' = "analyzeNotReady"
            /\ UNCHANGED isAnalyzing
       ELSE /\ isAnalyzing' = TRUE
            /\ error' = NoError
            /\ pipe' = [pipe EXCEPT ![i] = "inferring"]
            /\ lastEvent' = "analyzeStart"
  /\ errorBy' = i
  /\ UNCHANGED <<lifecycleVars, image, predictions, nextId, cleared, overlap>>

\* img.onerror
DecodeFail(i) ==
  /\ pipe[i] = "decoding"
  /\ error' = DecodeErrorMsg
  /\ errorBy' = i
  /\ pipe' = [pipe EXCEPT ![i] = "decodeError"]
  /\ lastEvent' = "decodeFail"
  /\ UNCHANGED <<lifecycleVars, image, predictions, isAnalyzing, nextId,
                 cleared, overlap>>

\* classify resolves: setPredictions(predictions); finally setIsAnalyzing(false)
InferenceResolve(i) ==
  /\ pipe[i] = "inferring"
  /\ predictions' = i
  /\ isAnalyzing' = FALSE
  /\ pipe' = [pipe EXCEPT ![i] = "ok"]
  /\ lastEvent' = "inferenceResolve"
  /\ UNCHANGED <<lifecycleVars, image, error, errorBy, nextId, cleared,
                 overlap>>

\* mutant: the catch block without the finally
InferenceFailNoFinally(i) ==
  /\ pipe[i] = "inferring"
  /\ error' = AnalysisErrorMsg
  /\ errorBy' = i
  /\ pipe' = [pipe EXCEPT ![i] = "inferError"]
  /\ lastEvent' = "inferenceFail"
  /\ UNCHANGED <<lifecycleVars, image, predictions, nextId, cleared, overlap,
                 isAnalyzing>>

\* classify rejects: the catch block, then finally setIsAnalyzing(false)
InferenceFail(i) ==
  /\ pipe[i] = "inferring"
  /\ error' = AnalysisErrorMsg
  /\ errorBy' = i
  /\ isAnalyzing' = FALSE
  /\ pipe' = [pipe EXCEPT ![i] = "inferError"]
  /\ lastEvent' = "inferenceFail"
  /\ UNCHANGED <<lifecycleVars, image, predictions, nextId, cleared, overlap>>

\* the clear button's onClick: setImage(null); setPredictions([]); setError(null)
ClearImage ==
  /\ image' = 0
  /\ predictions' = 0
  /\ error' = NoError
  /\ errorBy' = 0
  /\ cleared' = TRUE
  /\ lastEvent' = "clear"
  /\ UNCHANGED <<lifecycleVars, isAnalyzing, pipe, nextId, overlap>>

\* ---------------------------------------------------------- specifications
\* resolutions of asynchronous work: the same in both specifications
Resolutions ==
  \/ InitializeModel
  \/ LoadSuccess
  \/ LoadFail
  \/ TimerFire
  \/ \E i \in Ids : ReadResolve(i)
  \/ \E i \in Ids : ReadFail(i)
  \/ \E i \in Ids : DecodeResolve(i)
  \/ \E i \in Ids : DecodeFail(i)
  \/ \E i \in Ids : InferenceResolve(i)
  \/ \E i \in Ids : InferenceFail(i)

\* the user acts through what the component renders
Next ==
  \/ Resolutions
  \/ RetryOffered /\ HandleRetry
  \/ \E file \in Files : MainViewShown /\ HandleImageUpload(file)
  \/ \E file \in Files : MainViewShown /\ HandleDrop(file)
  \/ ClearOffered /\ ClearImage

Spec == Init /\ [][Next]_vars

\* the image handlers called in any state, whatever is rendered (an event
\* delivered to the file input or the drop zone regardless of the screen)
NextHandlers ==
  \/ Resolutions
  \/ RetryOffered /\ HandleRetry
  \/ \E file \in Files : HandleImageUpload(file)
  \/ \E file \in Files : HandleDrop(file)
  \/ ClearImage

SpecHandlers == Init /\ [][NextHandlers]_vars

\* Spec with the scheduling the event loop gives: the mount effect runs, a
\* load in flight settles (resolves or rejects), a set timer fires
SpecFair ==
  /\ Spec
  /\ WF_vars(InitializeModel)
  /\ WF_vars(LoadSuccess \/ LoadFail)
  /\ WF_vars(TimerFire)

TypeOK ==
  /\ image \in 0..MaxSubmits
  /\ predictions \in 0..MaxSubmits
  /\ isAnalyzing \in BOOLEAN
  /\ isModelLoading \in BOOLEAN
  /\ error.kind \in {"null", "retrying", "terminal", "notReady", "analysis",
                     "unsupported", "decode", "read"}
  /\ modelRef \in {"null", "model"}
  /\ retryCount \in Nat
  /\ mounted \in BOOLEAN
  /\ loads \in Nat
  /\ timers \in Nat
  /\ \A i \in Ids : pipe[i] \in PipeStates
  /\ nextId \in 1..(MaxSubmits + 1)
  /\ errorBy \in 0..MaxSubmits
  /\ phase \in {"Uninitialized", "Loading", "Ready", "Failed"}

\* ------------------------------------------------------------------ claims
\* the lifecycle is in ModelFailed: not loading, the terminal message shown,
\* no load in flight and no retry timer pending
ModelFailed ==
  /\ ~isModelLoading
  /\ error = TerminalMsg
  /\ loads = 0
  /\ timers = 0

LoadJustFailed == lastEvent \in {"loadFailRetry", "loadFailTerminal"}

\* C1 as stated: once the load of a fresh controller (attempt 0, no model)
\* has failed 3 consecutive times, the controller is in ModelFailed.
C1_FailedAfterThreeFailures ==
  (LoadJustFailed /\ modelRef = "null" /\ fails = MaxRetries) => ModelFailed

\* C1 amended: the controller is in ModelFailed once the load has failed 4
\* consecutive times (the first attempt and 3 automatic retries); after the
\* 1st, 2nd and 3rd failure it is still loading, shows the retry message of
\* that attempt and has one retry timer pending.
C1_FailedAfterFourFailures ==
  LoadJustFailed =>
    /\ fails \in 1..(MaxRetries + 1)
    /\ fails = MaxRetries + 1 => ModelFailed /\ phase = "Failed"
    /\ fails <= MaxRetries =>
         /\ isModelLoading
         /\ error = RetryingMsg(fails)
         /\ timers = 1
         /\ loads = 0

C1_Witness ==
  /\ lastEvent = "loadFailTerminal"
  /\ fails = MaxRetries + 1
  /\ ModelFailed

\* C2: in an episode in which every attempt fails, the retry timer fires
\* exactly 3 times before the terminal failure, and the n of the successive
\* "Retrying... (Attempt n/3)" messages is 1, 2, 3: the n-th failure writes n.
C2_RetryBudget ==
  /\ lastEvent = "loadFailRetry" =>
       /\ error = RetryingMsg(retryCount)
       /\ retryCount = fails
       /\ retryCount \in 1..MaxRetries
       /\ timerFired = fails - 1
  /\ lastEvent = "loadFailTerminal" => timerFired = MaxRetries

C2_Witness ==
  /\ lastEvent = "loadFailTerminal"
  /\ timerFired = MaxRetries
  /\ retryCount = MaxRetries

\* C3 as stated: image B submitted while image A was in flight; once every
\* pipeline has resolved (and the user has not cleared since), the state
\* reflects only B, the last submitted image: the image is B, the
\* predictions are B's result or empty, and the error was not written by A.
C3_FinalReflectsOnlyLast ==
  LET last == nextId - 1 IN
  (overlap /\ ~SomeInFlight /\ ~cleared /\ pipe[last] # "readError") =>
    /\ image = last
    /\ predictions = (IF pipe[last] = "ok" THEN last ELSE 0)
    /\ errorBy \in {0, last}

\* C4 as stated: after the clear button, and until the next submission, no
\* image is held, the predictions are empty and the error is null.
C4_ClearedStaysIdle ==
  cleared => image = 0 /\ predictions = 0 /\ error = NoError

\* C5: the retry counter stays within 0..3 in every reachable state.
C5_AttemptBounded == retryCount \in 0..MaxRetries

C5_Witness == retryCount = MaxRetries /\ lastEvent = "loadFailRetry"

\* C6: every successful load leaves the model stored, the loading flag false
\* and the retry counter 0, whatever the number of failures before it.
C6_SuccessLeavesReady ==
  lastEvent = "loadSuccess" =>
    /\ modelRef = "model"
    /\ ~isModelLoading
    /\ retryCount = 0
    /\ phase = "Ready"

C6_Witness ==
  /\ lastEvent = "loadSuccess"
  /\ fails = 2
  /\ retryCount = 0
  /\ modelRef = "model"

\* C7: handleRetry run in ModelFailed leaves the counter 0, the state
\* Loading with the error cleared and one load in flight; an episode begun
\* that way fails terminally only after 3 automatic retries, as the first.
C7_RetryFromFailed ==
  /\ (lastEvent = "handleRetry" /\ retryFrom = "terminal") =>
       /\ retryCount = 0
       /\ isModelLoading
       /\ error = NoError
       /\ phase = "Loading"
       /\ loads = 1
       /\ timers = 0
  /\ (lastEvent = "loadFailTerminal" /\ retryFrom = "terminal") =>
       /\ timerFired = MaxRetries
       /\ fails = MaxRetries + 1

C7_Witness ==
  /\ lastEvent = "loadFailTerminal"
  /\ retryFrom = "terminal"
  /\ timerFired = MaxRetries

\* C8: with retry offered as the view offers it, there are never two
\* unresolved loads, nor a pending retry timer together with a load.
C8_SingleLoadChain == loads + timers <= 1

C8_Witness == retryFrom # "none" /\ timers = 1 /\ loads = 0

\* C9 as stated: analyzeImage sets the analyzing flag and issues the
\* inference only while the lifecycle is Ready: a model is stored, no load
\* is in flight, no retry timer is pending and the controller is not Failed.
C9_AnalyzingOnlyWhenReady ==
  lastEvent = "analyzeStart" =>
    /\ modelRef = "model"
    /\ phase = "Ready"
    /\ loads = 0
    /\ timers = 0

\* analyzeImage is entered for image i in this step
AnalysisRequested(i) ==
  pipe[i] = "decoding" /\ pipe'[i] \notin {"decoding", "decodeError"}

\* C10: an analysis requested while no model is stored sets the
\* model-not-ready error, leaves the analyzing flag, the image and the
\* predictions as they were, issues no inference, and is never resumed.
C10_FailFast ==
  [][\A i \in Ids :
       /\ (AnalysisRequested(i) /\ modelRef = "null") =>
            /\ pipe'[i] = "notReady"
            /\ error' = ModelNotReadyMsg
            /\ UNCHANGED <<isAnalyzing, image, predictions>>
            /\ \A j \in Ids : pipe'[j] = "inferring" => pipe[j] = "inferring"
       /\ pipe[i] = "notReady" => pipe'[i] = "notReady"]_vars

C10_Witness ==
  /\ lastEvent = "analyzeNotReady"
  /\ modelRef = "null"
  /\ error = ModelNotReadyMsg
  /\ ~isAnalyzing

\* C11: a submission that is rejected for its type, through the picker or
\* through drop, sets the unsupported-type error and leaves the image, the
\* predictions, the analyzing flag, the model handle, the loading flag and
\* the retry counter as they were, and starts no read, decode or inference.
C11_RejectChangesOnlyError ==
  [][lastEvent' \in {"uploadRejected", "dropRejected"} =>
       /\ error' = UnsupportedTypeMsg
       /\ UNCHANGED <<image, predictions, isAnalyzing, modelRef,
                      isModelLoading, retryCount, pipe, nextId, loads,
                      timers>>]_vars

C11_Witness ==
  /\ lastEvent = "dropRejected"
  /\ error = UnsupportedTypeMsg
  /\ image # 0
  /\ predictions # 0

\* C12 as stated: right after a valid image is submitted, before its read
\* completes, the previous image and its predictions are gone.
C12_SubmissionDiscardsPrevious ==
  lastEvent \in {"uploadAccepted", "dropAccepted"} =>
    image = 0 /\ predictions = 0

PipelineErrorKinds == {"unsupported", "read", "decode", "notReady", "analysis"}

\* C13 as stated: in every pipeline error state reached while the model is
\* Ready, the screen on which the user submits a new image is the one shown,
\* so that recovery does not need a model reload.
C13_PipelineErrorRecoverable ==
  (error.kind \in PipelineErrorKinds /\ phase = "Ready") => MainViewShown

\* C14 as stated: once the terminal message is shown and the loading flag
\* is false, only handleRetry changes the error or the loading flag.
C14_FailedUntilRetry ==
  [][(error = TerminalMsg /\ ~isModelLoading /\ lastEvent' # "handleRetry") =>
       (error' = error /\ isModelLoading' = isModelLoading)]_vars

\* C15: under fairness of the mount effect, of load settlement and of the
\* retry timer, whenever the loading flag is set it is eventually cleared,
\* and at that point the controller is either Ready (model stored, counter
\* 0) or Failed (terminal message shown).
C15_LoadingEnds ==
  isModelLoading ~>
    /\ ~isModelLoading
    /\ \/ phase = "Ready" /\ modelRef = "model" /\ retryCount = 0
       \/ phase = "Failed" /\ error = TerminalMsg

C15_Witness ==
  /\ ~isModelLoading
  /\ phase = "Ready"
  /\ fails = 1
  /\ retryCount = 0
  /\ loads = 0
  /\ timers = 0

\* C16: an image's decode starts only when its read resolves, its analysis
\* (model check, analyzing flag, inference) starts only when its decode
\* resolves, and a failed read or decode starts nothing further.
C16_StagesInSequence ==
  [][/\ \A i \in Ids :
          /\ (pipe'[i] = "decoding" /\ pipe[i] # "decoding") =>
               (pipe[i] = "reading" /\ lastEvent' = "readResolve")
          /\ (pipe'[i] \in {"inferring", "notReady"} /\ pipe[i] # pipe'[i]) =>
               /\ pipe[i] = "decoding"
               /\ lastEvent' \in {"analyzeStart", "analyzeNotReady"}
          /\ pipe[i] = "readError" => pipe'[i] = "readError"
          /\ pipe[i] = "decodeError" => pipe'[i] = "decodeError"
     /\ (isAnalyzing' /\ ~isAnalyzing) => lastEvent' = "analyzeStart"]_vars

C16_Witness == \E i \in Ids : pipe[i] = "ok" /\ predictions = i /\ image = i

\* C17 as stated: every start of a load (initial, timer, retry) leaves the
\* state Loading with the error cleared and no model handle, and no model
\* handle is held while a load is in flight.
C17_StartClearsHandle ==
  /\ lastEvent \in {"initializeModel", "timerFire", "handleRetry"} =>
       isModelLoading /\ error = NoError /\ modelRef = "null"
  /\ loads > 0 => modelRef = "null"

\* C18: a read, decode or inference failure sets the error message of its
\* cause; an inference failure also clears the analyzing flag and leaves the
\* predictions as they were (empty when only one image was ever submitted).
C18_FailuresSurfaced ==
  [][/\ lastEvent' = "readFail" => error' = ReadErrorMsg
     /\ lastEvent' = "decodeFail" => error' = DecodeErrorMsg
     /\ lastEvent' = "inferenceFail" =>
          /\ error' = AnalysisErrorMsg
          /\ ~isAnalyzing'
          /\ predictions' = predictions
          /\ nextId = 2 => predictions' = 0
     /\ lastEvent' \in {"readFail", "decodeFail", "inferenceFail"} =>
          error' # NoError]_vars

C18_Witness ==
  /\ lastEvent = "inferenceFail"
  /\ error = AnalysisErrorMsg
  /\ ~isAnalyzing
  /\ predictions = 0
  /\ nextId = 2

\* a step of one handler on a file of F is also a step (lastEvent apart) of
\* the other handler on that file
PathsAgreeOn(F) ==
  \A f \in F :
    /\ lastEvent' = EventName("upload", PickerOutcome(f)) =>
         SubmitEffect(DropOutcome(f))
    /\ lastEvent' = EventName("drop", DropOutcome(f)) =>
         SubmitEffect(PickerOutcome(f))

\* C19 as stated: for every input (no file, a non-image file, an image
\* file) the picker path and the drop path lead from the same state to the
\* same state.
C19_PathsEquivalent == [][PathsAgreeOn(Files)]_vars

\* C19 amended: for every file that is present (non-image or image) the
\* picker path and the drop path lead from the same state to the same state;
\* with no file the picker changes nothing and drop sets the
\* unsupported-type error.
C19_PathsEquivalentForFiles ==
  [][/\ PathsAgreeOn(Files \ {NoFile})
     /\ lastEvent' = "uploadNoFile" => UNCHANGED <<image, predictions, error,
                                                  isAnalyzing, pipe>>
     /\ lastEvent' = "dropRejected" => error' = UnsupportedTypeMsg]_vars

C19_Witness ==
  /\ lastEvent = "dropAccepted"
  /\ \E i \in Ids : pipe[i] = "reading"

\* C20 as stated: the analyzing flag is true exactly when some issued
\* inference is unresolved.
C20_AnalyzingIffInference ==
  isAnalyzing <=> (\E i \in Ids : pipe[i] = "inferring")

====
